---- MODULE Spec2Model ----
(***************************************************************************)
(* State-machine model of the quiz server: the shared ServerState          *)
(* (src/server/state.rs), the connection tasks and message handlers        *)
(* (src/server/server.rs) and the host commands (src/server/commands.rs).  *)
(*                                                                         *)
(* Every handler runs while it holds the single Mutex over ServerState,    *)
(* so one action of the model is one critical section of the code.         *)
(* handle_connection takes the lock twice (ban check, then attach), so it  *)
(* is two actions with the WebSocket handshake in between.                 *)
(*                                                                         *)
(* Option<T> is modelled as a sequence of length 0 (None) or 1 (Some).     *)
(* A String is a sequence of one-character strings, all of them ASCII, so  *)
(* that str::len (a byte count) is Len.                                    *)
(*                                                                         *)
(* The state of the model is the state the handlers read: the fields of    *)
(* ServerState and of the sessions, and the position of every connection   *)
(* task.  What a handler only writes (the messages it enqueues on the      *)
(* channels, the lines it pushes on command_history, the entries it pushes *)
(* on live_answers) is computed by the handler operators as the fields     *)
(* sent, hist and live of their result; no handler reads it back, so the   *)
(* actions of Spec do not keep it from one step to the next.  The two      *)
(* retained feeds, live_answers and command_history, are kept by FeedSpec, *)
(* whose actions are the two push operations of ServerState.               *)
(*                                                                         *)
(* The single-player quiz (src/app.rs, src/lib.rs; the same logic is in    *)
(* src/main.rs) is a separate program on the same questions file: AppSpec  *)
(* runs its key handler.                                                   *)
(*                                                                         *)
(* Instants are only ever compared with each other, so finished_at keeps   *)
(* the order of the readings, renumbered from 0 after every new reading.   *)
(***************************************************************************)
EXTENDS Integers, Sequences, FiniteSets, TLC

\* ------------------------------------------------------------------ bounds
\* Number of TCP connections the acceptor takes over a run.
MaxConns == 2
\* Number of pushes on live_answers and on command_history in FeedSpec.
MaxRecorded == 54
MaxLogged == 104
\* Longest question list of the single-player quiz in AppSpec.
MaxQuestions == 3

\* ------------------------------------------------------- program constants
USERNAME_MIN_LENGTH == 3
USERNAME_MAX_LENGTH == 16
\* record_live_answer: "if self.live_answers.len() > 50"
MaxLiveAnswers == 50
\* add_to_history: "if self.command_history.len() > 100"
MaxHistory == 100
\* app.rs
NUM_OPTIONS == 4

\* ------------------------------------------------------------ input domains
Conns == 1..MaxConns
IPs == {1, 2}

None == <<>>
Some(x) == <<x>>
Unwrap(o) == o[1]

X16 == [i \in 1..16 |-> "x"]
X17 == [i \in 1..17 |-> "x"]
NameAbc == <<"a", "b", "c">>
\* Raw usernames a client may put in a Join message.
RawNames ==
    { <<" ", "a", "b", " ">>,
      <<" ", "a", "b", "c", " ">>,
      X16 \o <<" ">>,
      X17 }

\* Lines the host may type (already split at whitespace).
HostNames == { NameAbc, X16 }
QuizInputs ==
    { <<"start">>, <<"stop">>, <<"quit">> } \cup { <<"kick", u>> : u \in HostNames }
BanInputs ==
    { <<"ban", u>> : u \in HostNames } \cup { <<"unban", ip>> : ip \in IPs }

\* What the clients and the host of one run do: the addresses the clients
\* connect from, the usernames they try and the lines the host types.  A run
\* has either two names in play, or two addresses and the ban list.
Environments ==
    { [ips |-> {1}, raw_names |-> RawNames, host_inputs |-> QuizInputs],
      [ips |-> IPs, raw_names |-> RawNames \ {X16 \o <<" ">>},
       host_inputs |-> QuizInputs \cup BanInputs] }

\* Question banks the loader may supply (non-empty; only correct_answer
\* matters to the server logic, text/code/options are echoed by index).
QuestionBanks ==
    { << [correct_answer |-> 1] >>,
      << [correct_answer |-> 1], [correct_answer |-> 0] >> }

\* Option indices a client may submit (4 is outside the four options).
AnswerChoices == {1, 4}

\* ------------------------------------------------------------------- state
VARIABLES
    status,          \* ServerState.status
    questions,       \* ServerState.questions
    sessions,        \* ServerState.sessions : id -> UserSession
    username_to_id,  \* ServerState.username_to_id
    ip_to_id,        \* ServerState.ip_to_id
    banned_ips,      \* ServerState.banned_ips
    current_view,    \* ServerState.current_view
    should_quit,     \* ServerState.should_quit
    conns,           \* the handle_connection tasks: position, peer ip, session_id
    env,             \* the environment of the run, one of Environments
    live_answers,    \* ServerState.live_answers
    command_history, \* ServerState.command_history
    app,             \* the single-player App
    exited           \* the single-player event loop has been left

serverVars == << status, questions, sessions, username_to_id, ip_to_id, banned_ips,
                 current_view, should_quit, conns, env >>

vars == << status, questions, sessions, username_to_id, ip_to_id, banned_ips,
           current_view, should_quit, conns, env,
           live_answers, command_history, app, exited >>

\* ------------------------------------------------------------ UserStatus
Connected == [tag |-> "Connected", idx |-> 0]
InLobby == [tag |-> "InLobby", idx |-> 0]
Answering(k) == [tag |-> "Answering", idx |-> k]
Finished == [tag |-> "Finished", idx |-> 0]
Disconnected == [tag |-> "Disconnected", idx |-> 0]

\* ---------------------------------------------------------------- strings
IsSpace(ch) == ch = " "

RECURSIVE TrimStart(_)
TrimStart(s) ==
    IF s # <<>> /\ IsSpace(Head(s)) THEN TrimStart(Tail(s)) ELSE s

RECURSIVE TrimEnd(_)
TrimEnd(s) ==
    IF s # <<>> /\ IsSpace(s[Len(s)]) THEN TrimEnd(SubSeq(s, 1, Len(s) - 1)) ELSE s

\* str::trim
Trim(s) == TrimEnd(TrimStart(s))

\* protocol::validate_username : "" when Ok, else the error text
validate_username(username) ==
    LET trimmed == Trim(username) IN
    IF Len(trimmed) < USERNAME_MIN_LENGTH THEN "Username must be at least 3 characters"
    ELSE IF Len(trimmed) > USERNAME_MAX_LENGTH THEN "Username must be at most 16 characters"
    ELSE ""

\* ------------------------------------------------------------- UserSession
\* UserSession::new
NewSession(ip_addr, ch) ==
    [ username |-> None,
      ip_addr |-> ip_addr,
      status |-> Connected,
      answers |-> <<>>,
      score |-> None,
      finished_at |-> None,
      sender |-> Some(ch) ]

\* An initialisation that allocates a single slot.
init_answers_one_slot(session, num_questions) ==
    [session EXCEPT !.answers = <<None>>]

\* UserSession::init_answers
init_answers(session, num_questions) ==
    [session EXCEPT !.answers = [i \in 1..num_questions |-> None]]

\* UserSession::current_question_index : length of the leading run of set slots
RECURSIVE current_question_index_of(_)
current_question_index_of(answers) ==
    IF answers = <<>> \/ Head(answers) = None THEN 0
    ELSE 1 + current_question_index_of(Tail(answers))

current_question_index(session) == current_question_index_of(session.answers)

\* UserSession::is_finished
is_finished(session) == session.status = Finished

\* UserSession::is_connected
is_connected(session) == session.sender # None /\ session.status # Disconnected

\* A score that counts every answered slot.
calculate_score_answered(session, qs) ==
    Cardinality({ i \in 1..Len(session.answers) : session.answers[i] # None })

\* UserSession::calculate_score : zip(answers, questions), count the matches
calculate_score(session, qs) ==
    LET n == IF Len(session.answers) < Len(qs) THEN Len(session.answers) ELSE Len(qs) IN
    Cardinality({ i \in 1..n : session.answers[i] = Some(qs[i].correct_answer) })

\* ------------------------------------------------------------ ServerState
\* The ServerState aggregate as one record, with the outputs of the step
\* (sent: channel -> messages enqueued) still empty and the two feeds.
St ==
    [ status |-> status,
      questions |-> questions,
      sessions |-> sessions,
      username_to_id |-> username_to_id,
      ip_to_id |-> ip_to_id,
      banned_ips |-> banned_ips,
      current_view |-> current_view,
      should_quit |-> should_quit,
      sent |-> [c \in Conns |-> <<>>],
      hist |-> command_history,
      live |-> live_answers ]

\* UserSession::send on the session id of S
Send(S, id, msg) ==
    IF S.sessions[id].sender # None
    THEN [S EXCEPT !.sent[Unwrap(S.sessions[id].sender)] = Append(@, msg)]
    ELSE S

\* ServerState::add_to_history : push, then remove(0) when over 100
add_to_history(S, msg) ==
    LET pushed == Append(S.hist, msg) IN
    [S EXCEPT !.hist = IF Len(pushed) > MaxHistory THEN Tail(pushed) ELSE pushed]

\* A push that makes room by dropping the entry just pushed.
record_live_answer_drops_newest(S, username, question_index, answer) ==
    LET pushed == Append(S.live, [username |-> username,
                                  question_index |-> question_index,
                                  answer |-> answer])
    IN  [S EXCEPT !.live = IF Len(pushed) > MaxLiveAnswers
                           THEN SubSeq(pushed, 1, Len(pushed) - 1) ELSE pushed]

\* ServerState::record_live_answer : push, then remove(0) when over 50.
\* The timestamp of the entry is only written, never read.
record_live_answer(S, username, question_index, answer) ==
    LET pushed == Append(S.live, [username |-> username,
                                  question_index |-> question_index,
                                  answer |-> answer])
    IN  [S EXCEPT !.live = IF Len(pushed) > MaxLiveAnswers THEN Tail(pushed) ELSE pushed]

\* A uniqueness check that never finds the name taken.
is_username_taken_never(S, username) == FALSE

\* A uniqueness check that looks only at the sessions that hold a channel.
is_username_taken_by_live(S, username) ==
    \E id \in DOMAIN S.sessions :
        S.sessions[id].username = Some(username) /\ S.sessions[id].sender # None

\* ServerState::is_username_taken
is_username_taken(S, username) == username \in DOMAIN S.username_to_id

\* A count of all sessions, named or not.
named_user_count_all(S) == Cardinality(DOMAIN S.sessions)

\* ServerState::named_user_count
named_user_count(S) ==
    Cardinality({ id \in DOMAIN S.sessions : S.sessions[id].username # None })

\* A broadcast that reaches every session that holds a channel.
broadcast_to_every_channel(S, msg) ==
    [S EXCEPT !.sent =
        [c \in Conns |->
            IF \E id \in DOMAIN S.sessions : S.sessions[id].sender = Some(c)
            THEN Append(S.sent[c], msg)
            ELSE S.sent[c]]]

\* ServerState::broadcast
broadcast(S, msg) ==
    [S EXCEPT !.sent =
        [c \in Conns |->
            IF \E id \in DOMAIN S.sessions :
                   /\ S.sessions[id].username # None
                   /\ is_connected(S.sessions[id])
                   /\ S.sessions[id].sender = Some(c)
            THEN Append(S.sent[c], msg)
            ELSE S.sent[c]]]

\* A broadcast_all that skips the sessions still awaiting a username.
broadcast_all_named_only(S, msg) ==
    [S EXCEPT !.sent =
        [c \in Conns |->
            IF \E id \in DOMAIN S.sessions :
                   /\ S.sessions[id].username # None
                   /\ S.sessions[id].sender = Some(c)
            THEN Append(S.sent[c], msg)
            ELSE S.sent[c]]]

\* ServerState::broadcast_all
broadcast_all(S, msg) ==
    [S EXCEPT !.sent =
        [c \in Conns |->
            IF \E id \in DOMAIN S.sessions :
                   /\ is_connected(S.sessions[id])
                   /\ S.sessions[id].sender = Some(c)
            THEN Append(S.sent[c], msg)
            ELSE S.sent[c]]]

\* --------------------------------------------------------- ServerMessage
ConnectionAck == [type |-> "ConnectionAck"]
JoinAccepted(username) == [type |-> "JoinAccepted", username |-> username]
JoinRejected(reason) == [type |-> "JoinRejected", reason |-> reason]
ReconnectAccepted(username, current_question) ==
    [type |-> "ReconnectAccepted", username |-> username,
     current_question |-> current_question]
QuizStart(total_questions) == [type |-> "QuizStart", total_questions |-> total_questions]
Question(index) == [type |-> "Question", index |-> index]
QuizResults(score, total, answers, leaderboard) ==
    [type |-> "QuizResults", score |-> score, total |-> total,
     answers |-> answers, leaderboard |-> leaderboard]
Kicked(reason) == [type |-> "Kicked", reason |-> reason]
HostEndedQuiz == [type |-> "HostEndedQuiz"]

\* An entry of command_history: the format string and its arguments.
Hist(text, args) == [text |-> text, args |-> args]

\* ------------------------------------------------------------ leaderboard
unwrap_or(o, d) == IF o = None THEN d ELSE Unwrap(o)

\* Ord for Option<Instant>: None < Some(_), Some(x) < Some(y) iff x < y
OptLess(a, b) ==
    IF a = None THEN b # None
    ELSE b # None /\ Unwrap(a) < Unwrap(b)

\* A comparator that looks at the finish time alone.
LeaderLessByTimeOnly(S, a, b) ==
    OptLess(S.sessions[a].finished_at, S.sessions[b].finished_at)

\* The comparator of sort_by, as "a orders strictly before b":
\* score descending, then finished_at ascending.
LeaderLess(S, a, b) ==
    LET sa == unwrap_or(S.sessions[a].score, 0)
        sb == unwrap_or(S.sessions[b].score, 0)
    IN  \/ sb < sa
        \/ sa = sb /\ OptLess(S.sessions[a].finished_at, S.sessions[b].finished_at)

\* slice::sort_by is a stable sort: x goes behind every element that does
\* not order strictly after it.
RECURSIVE InsertSorted(_, _, _)
InsertSorted(S, sorted, x) ==
    IF sorted = <<>> THEN <<x>>
    ELSE IF LeaderLess(S, x, Head(sorted)) THEN <<x>> \o sorted
    ELSE <<Head(sorted)>> \o InsertSorted(S, Tail(sorted), x)

RECURSIVE StableSort(_, _)
StableSort(S, seq) ==
    IF seq = <<>> THEN <<>>
    ELSE InsertSorted(S, StableSort(S, SubSeq(seq, 1, Len(seq) - 1)), seq[Len(seq)])

\* The orders in which HashMap::values / keys may yield the sessions.
IterOrders(S) ==
    LET ids == DOMAIN S.sessions
        n == Cardinality(ids)
    IN  { o \in [1..n -> ids] : \A i, j \in 1..n : i # j => o[i] # o[j] }

\* A leaderboard that lists the requesting user alone.
generate_leaderboard_own_entry(S, order, requesting_username) ==
    LET keep(id) == /\ is_finished(S.sessions[id])
                    /\ S.sessions[id].username = Some(requesting_username)
        finished_users == StableSort(S, SelectSeq(order, keep))
    IN  [i \in 1..Len(finished_users) |->
            LET user == S.sessions[finished_users[i]] IN
            [ rank |-> i,
              username |-> unwrap_or(user.username, <<>>),
              score |-> unwrap_or(user.score, 0),
              total |-> Len(S.questions),
              is_you |-> TRUE ]]

\* ServerState::generate_leaderboard, for the iteration order `order`
generate_leaderboard(S, order, requesting_username) ==
    LET keep(id) == is_finished(S.sessions[id]) /\ S.sessions[id].username # None
        finished_users == StableSort(S, SelectSeq(order, keep))
    IN  [i \in 1..Len(finished_users) |->
            LET user == S.sessions[finished_users[i]] IN
            [ rank |-> i,
              username |-> unwrap_or(user.username, <<>>),
              score |-> unwrap_or(user.score, 0),
              total |-> Len(S.questions),
              is_you |-> (user.username = Some(requesting_username)) ]]

\* The per-question results built in handle_answer and cmd_stop
\* (filter_map over the answer slots; question_index is 0-based).
answer_results(session, qs) ==
    LET n == Len(session.answers)
        keep(i) == i <= Len(qs) /\ session.answers[i] # None
        idxs == SelectSeq([i \in 1..n |-> i], keep)
    IN  [j \in 1..Len(idxs) |->
            LET i == idxs[j] IN
            [ question_index |-> i - 1,
              your_answer |-> Unwrap(session.answers[i]),
              correct_answer |-> qs[i].correct_answer,
              is_correct |-> (Unwrap(session.answers[i]) = qs[i].correct_answer) ]]

\* HashMap::insert
Put(f, k, v) == [x \in DOMAIN f \cup {k} |-> IF x = k THEN v ELSE f[x]]

\* ------------------------------------------------------------ handle_join
handle_join(S, session_id, raw_username) ==
    LET username == Trim(raw_username)
        reason == validate_username(username)
    IN
    IF reason # "" THEN
        IF session_id \in DOMAIN S.sessions
        THEN Send(S, session_id, JoinRejected(reason))
        ELSE S
    ELSE IF is_username_taken(S, username) THEN
        IF session_id \in DOMAIN S.sessions
        THEN Send(S, session_id, JoinRejected("Username is already taken"))
        ELSE S
    ELSE IF session_id \notin DOMAIN S.sessions THEN S
    ELSE
        LET S1 == [S EXCEPT !.username_to_id = Put(@, username, session_id),
                            !.sessions[session_id].username = Some(username)]
        IN
        IF S.status = "InProgress" THEN
            LET S2 == [S1 EXCEPT !.sessions[session_id] =
                          [init_answers(@, Len(S.questions)) EXCEPT !.status = Answering(0)]]
                S3 == Send(S2, session_id, JoinAccepted(username))
                S4 == Send(S3, session_id, QuizStart(Len(S.questions)))
                S5 == IF S.questions # <<>> THEN Send(S4, session_id, Question(0)) ELSE S4
            IN  add_to_history(S5, Hist("User {} joined (late)", <<username>>))
        ELSE
            LET S2 == [S1 EXCEPT !.sessions[session_id].status = InLobby]
                S3 == Send(S2, session_id, JoinAccepted(username))
            IN  add_to_history(S3, Hist("User {} joined", <<username>>))

\* ---------------------------------------------------------- handle_answer
\* now is the reading of Instant::now(), order the HashMap iteration order.
handle_answer(S, session_id, question_index, answer, now, order) ==
    IF session_id \notin DOMAIN S.sessions THEN S
    ELSE
    LET questions_len == Len(S.questions)
        session == S.sessions[session_id]
        username == session.username
        current == current_question_index(session)
    IN
    IF question_index # current THEN S
    ELSE
    LET recorded ==
            IF question_index < Len(session.answers)
            THEN [session EXCEPT !.answers[question_index + 1] = Some(answer)]
            ELSE session
        next_index == question_index + 1
        should_finish == next_index >= questions_len
        updated ==
            IF should_finish
            THEN [recorded EXCEPT !.status = Finished,
                                  !.finished_at = Some(now),
                                  !.score = Some(calculate_score(recorded, S.questions))]
            ELSE [recorded EXCEPT !.status = Answering(next_index)]
        S1 == [S EXCEPT !.sessions[session_id] = updated]
        S2 == IF username # None
              THEN record_live_answer(S1, Unwrap(username), question_index, answer)
              ELSE S1
    IN
    IF should_finish THEN
        LET score == unwrap_or(updated.score, 0)
            username_for_results == unwrap_or(updated.username, <<>>)
            answers == answer_results(updated, S.questions)
            leaderboard == generate_leaderboard(S2, order, username_for_results)
            S3 == Send(S2, session_id, QuizResults(score, questions_len, answers, leaderboard))
        IN  add_to_history(S3, Hist("User {} finished with score {}/{}",
                                    <<username_for_results, score, questions_len>>))
    ELSE Send(S2, session_id, Question(next_index))

\* ------------------------------------------------------ handle_connection
\* Lines 93-102: Some(<<existing_id, username, current_q>>) or None
reconnect_info(S, ip) ==
    IF ip \notin DOMAIN S.ip_to_id THEN None
    ELSE
        LET existing_id == S.ip_to_id[ip] IN
        IF existing_id \notin DOMAIN S.sessions THEN None
        ELSE
            LET session == S.sessions[existing_id] IN
            IF session.status = Disconnected
            THEN IF session.username = None THEN None
                 ELSE Some(<< existing_id, Unwrap(session.username),
                              current_question_index(session) >>)
            ELSE None

\* A resend decision that does not look at the global status.
question_data_any_status(S, info) ==
    IF info # None /\ Unwrap(info)[3] < Len(S.questions)
    THEN Some(Unwrap(info)[3])
    ELSE None

\* Lines 107-119: Some(index of the question to resend) or None
question_data(S, info) ==
    IF S.status = "InProgress"
    THEN IF info # None /\ Unwrap(info)[3] < Len(S.questions)
         THEN Some(Unwrap(info)[3])
         ELSE None
    ELSE None

\* The status a re-attached session is given (lines 127-135).
restored_status(S, current_q) ==
    IF S.status = "InProgress"
    THEN IF current_q >= Len(S.questions) THEN Finished ELSE Answering(current_q)
    ELSE InLobby

\* The session id the connection ends up serving; a new session takes the
\* (fresh) id fresh_id.
connection_session_id(S, ip, fresh_id) ==
    LET info == reconnect_info(S, ip) IN
    IF info # None THEN Unwrap(info)[1] ELSE fresh_id

\* Lines 89-166, with tx the channel of the connection.
attach_connection(S, ip, tx, fresh_id) ==
    LET info == reconnect_info(S, ip)
        qd == question_data(S, info)
    IN
    IF info # None THEN
        LET existing_id == Unwrap(info)[1]
            username == Unwrap(info)[2]
            current_q == Unwrap(info)[3]
            S1 == [S EXCEPT !.sessions[existing_id].sender = Some(tx),
                            !.sessions[existing_id].status = restored_status(S, current_q)]
            S2 == add_to_history(S1, Hist("User {} reconnected", <<username>>))
            S3 == [S2 EXCEPT !.sent[tx] = Append(@, ReconnectAccepted(username, current_q))]
        IN  IF qd # None
            THEN [S3 EXCEPT !.sent[tx] = Append(@, Question(Unwrap(qd)))]
            ELSE S3
    ELSE
        LET S1 == [S EXCEPT !.sessions = Put(@, fresh_id, NewSession(ip, tx)),
                            !.ip_to_id = Put(@, ip, fresh_id)]
        IN  [S1 EXCEPT !.sent[tx] = Append(@, ConnectionAck)]

\* A teardown that marks every session Disconnected, a Finished one too.
mark_disconnected_always(S, session_id) ==
    IF session_id \notin DOMAIN S.sessions THEN S
    ELSE [S EXCEPT !.sessions[session_id].sender = None,
                   !.sessions[session_id].status = Disconnected]

\* handle_messages, lines 213-233: the read loop has ended.
mark_disconnected(S, session_id) ==
    IF session_id \notin DOMAIN S.sessions THEN S
    ELSE
        LET session == S.sessions[session_id]
            S1 == [S EXCEPT !.sessions[session_id].sender = None]
        IN
        IF session.status # Finished THEN
            LET S2 == [S1 EXCEPT !.sessions[session_id].status = Disconnected] IN
            IF session.username # None
            THEN add_to_history(S2, Hist("User {} disconnected", <<Unwrap(session.username)>>))
            ELSE S2
        ELSE S1

\* ------------------------------------------------------------- commands
\* ServerView
ViewLobby == [tag |-> "Lobby"]
ViewAnalytics == [tag |-> "Analytics"]
UserDetail(username) == [tag |-> "UserDetail", username |-> username]

\* CommandResult, together with the state the command leaves.
Result(S, kind, msg) == [S |-> S, kind |-> kind, msg |-> msg]

\* ServerState::get_user_by_name : Some(id) or None
get_user_by_name(S, username) ==
    IF username \in DOMAIN S.username_to_id
    THEN IF S.username_to_id[username] \in DOMAIN S.sessions
         THEN Some(S.username_to_id[username])
         ELSE None
    ELSE None

cmd_start(S) ==
    IF S.status # "Lobby"
    THEN Result(S, "Error", Some(Hist("Quiz has already started.", <<>>)))
    ELSE
    LET named_count == named_user_count(S) IN
    IF named_count = 0
    THEN Result(S, "Error", Some(Hist("No users have joined yet.", <<>>)))
    ELSE
    LET num_questions == Len(S.questions)
        S1 == [S EXCEPT !.sessions =
                  [id \in DOMAIN S.sessions |->
                      IF S.sessions[id].username # None /\ S.sessions[id].status = InLobby
                      THEN [init_answers(S.sessions[id], num_questions)
                               EXCEPT !.status = Answering(0)]
                      ELSE S.sessions[id]]]
        S2 == [S1 EXCEPT !.status = "InProgress", !.current_view = ViewAnalytics]
        S3 == broadcast(S2, QuizStart(num_questions))
        S4 == IF S.questions # <<>> THEN broadcast(S3, Question(0)) ELSE S3
    IN  Result(S4, "Ok", Some(Hist("Quiz started with {} users!", <<named_count>>)))

\* The second and third pass of cmd_stop: results to the sessions that were
\* finished, HostEndedQuiz to the others that were connected.
RECURSIVE send_stop_messages(_, _, _, _)
send_stop_messages(S, S0, ids, order) ==
    IF ids = <<>> THEN S
    ELSE
        LET id == Head(ids)
            session == S.sessions[id]
            next ==
                IF is_finished(S0.sessions[id]) THEN
                    Send(S, id, QuizResults(unwrap_or(session.score, 0),
                                            Len(S.questions),
                                            answer_results(session, S.questions),
                                            generate_leaderboard(S, order,
                                                unwrap_or(session.username, <<>>))))
                ELSE IF is_connected(S0.sessions[id]) THEN Send(S, id, HostEndedQuiz)
                ELSE S
        IN  send_stop_messages(next, S0, Tail(ids), order)

\* A stop that takes the quiz back to the lobby.
cmd_stop_to_lobby(S, order) ==
    IF S.status # "InProgress"
    THEN Result(S, "Error", Some(Hist("Quiz is not in progress.", <<>>)))
    ELSE Result([S EXCEPT !.status = "Lobby"], "Ok", None)

\* A stop that reports success and leaves the global status as it is.
cmd_stop_keeps_status(S, order) ==
    IF S.status # "InProgress"
    THEN Result(S, "Error", Some(Hist("Quiz is not in progress.", <<>>)))
    ELSE Result(S, "Ok", None)

cmd_stop(S, order) ==
    IF S.status # "InProgress"
    THEN Result(S, "Error", Some(Hist("Quiz is not in progress.", <<>>)))
    ELSE
    LET S1 == [S EXCEPT !.status = "Finished"]
        S2 == [S1 EXCEPT !.sessions =
                  [id \in DOMAIN S.sessions |->
                      IF is_finished(S.sessions[id])
                      THEN [S.sessions[id] EXCEPT
                               !.score = Some(calculate_score(S.sessions[id], S.questions))]
                      ELSE S.sessions[id]]]
        S3 == send_stop_messages(S2, S2, order, order)
    IN  Result(S3, "Ok", Some(Hist("Quiz stopped. Results sent to finished users.", <<>>)))

cmd_quit(S) ==
    LET S1 == broadcast_all(S, HostEndedQuiz) IN
    Result([S1 EXCEPT !.should_quit = TRUE], "Quit", None)

cmd_kick(S, args) ==
    IF args = <<>> THEN Result(S, "Error", Some(Hist("Usage: kick <username>", <<>>)))
    ELSE
    LET username == args[1]
        found == get_user_by_name(S, username)
    IN
    IF found # None THEN
        LET id == Unwrap(found)
            S1 == Send(S, id, Kicked("Kicked by host"))
            S2 == [S1 EXCEPT !.sessions[id].sender = None,
                             !.sessions[id].status = Disconnected]
        IN  Result(S2, "Ok", Some(Hist("Kicked user: {}", <<username>>)))
    ELSE Result(S, "Error", Some(Hist("User not found: {}", <<username>>)))

cmd_ban(S, args) ==
    IF args = <<>> THEN Result(S, "Error", Some(Hist("Usage: ban <username>", <<>>)))
    ELSE
    LET username == args[1]
        found == get_user_by_name(S, username)
    IN
    IF found # None THEN
        LET id == Unwrap(found)
            ip == S.sessions[id].ip_addr
            S1 == [S EXCEPT !.banned_ips = @ \cup {ip}]
            S2 == Send(S1, id, Kicked("Banned by host"))
            S3 == [S2 EXCEPT !.sessions[id].sender = None,
                             !.sessions[id].status = Disconnected]
        IN  Result(S3, "Ok", Some(Hist("Banned user: {} (IP: {})", <<username, ip>>)))
    ELSE Result(S, "Error", Some(Hist("User not found: {}", <<username>>)))

\* str::parse::<IpAddr> : a token is the text of an address of IPs, or 0
\* for text that is no address.
parse_ip(token) == IF token \in IPs THEN Some(token) ELSE None

\* An unban that reports success and leaves the address banned.
cmd_unban_keeps_ban(S, args) ==
    IF args = <<>> THEN Result(S, "Error", Some(Hist("Usage: unban <ip>", <<>>)))
    ELSE
    LET parsed == parse_ip(args[1]) IN
    IF parsed # None THEN
        IF Unwrap(parsed) \in S.banned_ips
        THEN Result(S, "Ok", Some(Hist("Unbanned IP: {}", <<Unwrap(parsed)>>)))
        ELSE Result(S, "Error", Some(Hist("IP not in ban list: {}", <<Unwrap(parsed)>>)))
    ELSE Result(S, "Error", Some(Hist("Invalid IP address: {}", <<args[1]>>)))

\* cmd_unban
cmd_unban(S, args) ==
    IF args = <<>> THEN Result(S, "Error", Some(Hist("Usage: unban <ip>", <<>>)))
    ELSE
    LET parsed == parse_ip(args[1]) IN
    IF parsed # None THEN
        IF Unwrap(parsed) \in S.banned_ips
        THEN Result([S EXCEPT !.banned_ips = @ \ {Unwrap(parsed)}], "Ok",
                    Some(Hist("Unbanned IP: {}", <<Unwrap(parsed)>>)))
        ELSE Result(S, "Error", Some(Hist("IP not in ban list: {}", <<Unwrap(parsed)>>)))
    ELSE Result(S, "Error", Some(Hist("Invalid IP address: {}", <<args[1]>>)))

\* str::to_lowercase on the command word
to_lowercase(word) ==
    CASE word = "START" -> "start"
      [] word = "Stop" -> "stop"
      [] OTHER -> word

\* str::to_lowercase on an argument (arguments are kept as character
\* sequences, like usernames)
to_lowercase_chars(word) ==
    [i \in 1..Len(word) |->
        CASE word[i] = "A" -> "a"
          [] word[i] = "B" -> "b"
          [] word[i] = "L" -> "l"
          [] OTHER -> word[i]]

cmd_view(S, args) ==
    IF args = <<>> \/ to_lowercase_chars(args[1]) = <<"a", "l", "l">>
    THEN Result([S EXCEPT !.current_view = ViewAnalytics], "Ok",
                Some(Hist("Viewing all users.", <<>>)))
    ELSE
    LET username == args[1] IN
    IF get_user_by_name(S, username) # None
    THEN Result([S EXCEPT !.current_view = UserDetail(username)], "Ok",
                Some(Hist("Viewing user: {}", <<username>>)))
    ELSE Result(S, "Error", Some(Hist("User not found: {}", <<username>>)))

\* The "name (status)" items of cmd_list, in the iteration order of the map.
list_users(S, order) ==
    LET named == SelectSeq(order, LAMBDA id : S.sessions[id].username # None)
    IN  [i \in 1..Len(named) |->
            << Unwrap(S.sessions[named[i]].username), S.sessions[named[i]].status >>]

cmd_list(S, args, order) ==
    IF args # <<>> /\ to_lowercase_chars(args[1]) = <<"b", "a", "n", "s">>
    THEN IF S.banned_ips = {}
         THEN Result(S, "Ok", Some(Hist("No banned IPs.", <<>>)))
         ELSE Result(S, "Ok", Some(Hist("Banned IPs: {}", <<S.banned_ips>>)))
    ELSE LET users == list_users(S, order) IN
         IF users = <<>>
         THEN Result(S, "Ok", Some(Hist("No users connected.", <<>>)))
         ELSE Result(S, "Ok", Some(Hist("Users: {}", <<users>>)))

cmd_help(S) == Result(S, "Ok", Some(Hist("Available commands: ...", <<>>)))

\* execute_command; input is the line after trim and split_whitespace.
execute_command(S, input, order) ==
    IF input = <<>> THEN Result(S, "Ok", None)
    ELSE
    LET command == to_lowercase(input[1])
        args == Tail(input)
    IN
    CASE command = "start" -> cmd_start(S)
      [] command = "stop" -> cmd_stop(S, order)
      [] command \in {"quit", "exit"} -> cmd_quit(S)
      [] command = "kick" -> cmd_kick(S, args)
      [] command = "ban" -> cmd_ban(S, args)
      [] command = "unban" -> cmd_unban(S, args)
      [] command = "view" -> cmd_view(S, args)
      [] command = "list" -> cmd_list(S, args, order)
      [] command \in {"help", "?"} -> cmd_help(S)
      [] OTHER -> Result(S, "Error",
                         Some(Hist("Unknown command: {}. Type 'help' for available commands.",
                                   <<command>>)))

\* handle_input, KeyCode::Enter with the typed line
handle_input_enter(S, input, order) ==
    LET r == execute_command(S, input, order) IN
    IF r.kind = "Ok" THEN
        IF r.msg # None THEN add_to_history(r.S, Unwrap(r.msg)) ELSE r.S
    ELSE IF r.kind = "Error" THEN
        add_to_history(r.S, [Unwrap(r.msg) EXCEPT !.text = "Error: " \o @])
    ELSE r.S

\* ------------------------------------------------------ single-player App
\* App::new
App_new(qs) ==
    [ state |-> "Welcome",
      questions |-> qs,
      current_question_index |-> 0,
      selected_option |-> 0,
      answers |-> [i \in 1..Len(qs) |-> None],
      result_scroll |-> 0 ]

\* usize::saturating_sub
saturating_sub(a, b) == IF a < b THEN 0 ELSE a - b

\* App::scroll_results_down
scroll_results_down(a) ==
    LET max_scroll == saturating_sub(Len(a.questions), 1)
        next == a.result_scroll + 1
    IN  [a EXCEPT !.result_scroll = IF next < max_scroll THEN next ELSE max_scroll]

\* App::scroll_results_up
scroll_results_up(a) == [a EXCEPT !.result_scroll = saturating_sub(@, 1)]

\* App::select_next_option
select_next_option(a) == [a EXCEPT !.selected_option = (@ + 1) % NUM_OPTIONS]

\* A select-previous that stops at option 0.
select_previous_option_saturating(a) ==
    [a EXCEPT !.selected_option = saturating_sub(@, 1)]

\* App::select_previous_option
select_previous_option(a) ==
    [a EXCEPT !.selected_option = (@ + NUM_OPTIONS - 1) % NUM_OPTIONS]

\* App::start_quiz
start_quiz(a) == [a EXCEPT !.state = "Quiz"]

\* A submit that moves to the result only once the index is past the end.
submit_answer_late_result(a) ==
    IF a.current_question_index >= Len(a.answers) THEN [a EXCEPT !.state = "Panicked"]
    ELSE LET b == [a EXCEPT !.answers[a.current_question_index + 1] = Some(a.selected_option),
                            !.current_question_index = @ + 1,
                            !.selected_option = 0]
         IN  IF b.current_question_index > Len(b.questions)
             THEN [b EXCEPT !.state = "Result"] ELSE b

\* App::submit_answer.  Indexing answers past its end panics.
submit_answer(a) ==
    IF a.current_question_index >= Len(a.answers) THEN [a EXCEPT !.state = "Panicked"]
    ELSE LET b == [a EXCEPT !.answers[a.current_question_index + 1] = Some(a.selected_option),
                            !.current_question_index = @ + 1,
                            !.selected_option = 0]
         IN  IF b.current_question_index >= Len(b.questions)
             THEN [b EXCEPT !.state = "Result"] ELSE b

\* zip(answers, questions).filter(answer == Some(correct_answer)).count()
RECURSIVE CountZip(_, _)
CountZip(answers, qs) ==
    IF answers = <<>> \/ qs = <<>> THEN 0
    ELSE (IF Head(answers) = Some(Head(qs).correct_answer) THEN 1 ELSE 0)
         + CountZip(Tail(answers), Tail(qs))

\* A score that counts every answered slot.
App_calculate_score_answered(a) ==
    Len(SelectSeq(a.answers, LAMBDA x : x # None))

\* App::calculate_score
App_calculate_score(a) == CountZip(a.answers, a.questions)

\* App::restart
restart(a) ==
    [a EXCEPT !.state = "Welcome",
              !.current_question_index = 0,
              !.selected_option = 0,
              !.answers = [i \in 1..Len(a.questions) |-> None],
              !.result_scroll = 0]

\* The keys the handlers tell apart; "x" is any other key.
Keys == { "Enter", "Space", "Up", "Down", "j", "k", "r", "q", "x" }

\* handle_welcome_input
handle_welcome_input(a, key) ==
    IF key = "Enter" THEN [app |-> start_quiz(a), exit |-> FALSE]
    ELSE IF key = "q" THEN [app |-> a, exit |-> TRUE]
    ELSE [app |-> a, exit |-> FALSE]

\* handle_quiz_input
handle_quiz_input(a, key) ==
    IF key \in {"Up", "k"} THEN [app |-> select_previous_option(a), exit |-> FALSE]
    ELSE IF key \in {"Down", "j"} THEN [app |-> select_next_option(a), exit |-> FALSE]
    ELSE IF key \in {"Enter", "Space"} THEN [app |-> submit_answer(a), exit |-> FALSE]
    ELSE IF key = "q" THEN [app |-> a, exit |-> TRUE]
    ELSE [app |-> a, exit |-> FALSE]

\* handle_result_input
handle_result_input(a, key) ==
    IF key \in {"Down", "j"} THEN [app |-> scroll_results_down(a), exit |-> FALSE]
    ELSE IF key \in {"Up", "k"} THEN [app |-> scroll_results_up(a), exit |-> FALSE]
    ELSE IF key = "r" THEN [app |-> restart(a), exit |-> FALSE]
    ELSE IF key = "q" THEN [app |-> a, exit |-> TRUE]
    ELSE [app |-> a, exit |-> FALSE]

\* handle_input: dispatch on the state of the App
handle_input(a, key) ==
    IF a.state = "Welcome" THEN handle_welcome_input(a, key)
    ELSE IF a.state = "Quiz" THEN handle_quiz_input(a, key)
    ELSE handle_result_input(a, key)

\* ---------------------------------------------------------------- actions
IdleConn == [pc |-> "idle", ip |-> 0, sid |-> 0]
ClosedConn == [pc |-> "closed", ip |-> 0, sid |-> 0]

\* ServerState::new, before any connection is accepted.
ServerInit ==
    /\ status = "Lobby"
    /\ questions \in QuestionBanks
    /\ sessions = << >>
    /\ username_to_id = << >>
    /\ ip_to_id = << >>
    /\ banned_ips = {}
    /\ current_view = ViewLobby
    /\ should_quit = FALSE
    /\ conns = [c \in Conns |-> IdleConn]
    /\ env \in Environments
    /\ live_answers = << >>
    /\ command_history = << >>
    /\ exited = FALSE

\* The server, and the single-player App on the same questions file.
Init ==
    /\ ServerInit
    /\ app = App_new(questions)

\* The step leaves the ServerState as S.  The feeds S.hist and S.live are
\* the pushes of this step only and are not kept (FeedSpec keeps them).
Commit(S) ==
    /\ UNCHANGED << live_answers, command_history, app, exited >>
    /\ status' = S.status
    /\ questions' = S.questions
    /\ sessions' = S.sessions
    /\ username_to_id' = S.username_to_id
    /\ ip_to_id' = S.ip_to_id
    /\ banned_ips' = S.banned_ips
    /\ current_view' = S.current_view
    /\ should_quit' = S.should_quit
    /\ env' = env

\* The finish times recorded so far.
Stamps(S) ==
    { Unwrap(S.sessions[id].finished_at) :
          id \in { i \in DOMAIN S.sessions : S.sessions[i].finished_at # None } }

\* Readings Instant::now() may return: never before an earlier reading,
\* possibly equal to the latest one.
NowChoices(S) ==
    IF Stamps(S) = {} THEN {0}
    ELSE LET latest == CHOOSE t \in Stamps(S) : \A u \in Stamps(S) : u <= t
         IN  {latest, latest + 1}

\* The same finish times in the same order, renumbered from 0.
RenumberStamps(S) ==
    [S EXCEPT !.sessions =
        [id \in DOMAIN S.sessions |->
            IF S.sessions[id].finished_at = None THEN S.sessions[id]
            ELSE [S.sessions[id] EXCEPT !.finished_at =
                     Some(Cardinality({ u \in Stamps(S) : u < Unwrap(@) }))]]]

\* The process exits when the host quits (run_tui returns, then run and
\* main); no handler reads should_quit, so no step is modelled after it.
Running == ~should_quit

\* handle_connection, lines 63-72: accept and check the ban list.
Accept(c, ip) ==
    /\ Running
    /\ conns[c].pc = "idle"
    /\ \A d \in Conns : d < c => conns[d].pc # "idle"
    /\ conns' = [conns EXCEPT ![c] =
                    IF ip \in banned_ips THEN ClosedConn
                    ELSE [pc |-> "handshake", ip |-> ip, sid |-> 0]]
    /\ Commit(St)

\* handle_connection, lines 75-81: the WebSocket handshake fails.
HandshakeFail(c) ==
    /\ Running
    /\ conns[c].pc = "handshake"
    /\ conns' = [conns EXCEPT ![c] = ClosedConn]
    /\ Commit(St)

\* handle_connection, lines 83-166: re-attach a session or create one.
\* A new session takes the id of its connection (Uuid::new_v4 is fresh).
Attach(c) ==
    /\ Running
    /\ conns[c].pc = "handshake"
    /\ conns' = [conns EXCEPT ![c] =
                    [pc |-> "open", ip |-> conns[c].ip,
                     sid |-> connection_session_id(St, conns[c].ip, c)]]
    /\ Commit(attach_connection(St, conns[c].ip, c, c))

\* handle_client_message with ClientMessage::Join
ClientJoin(c, raw) ==
    /\ Running
    /\ conns[c].pc = "open"
    /\ Commit(handle_join(St, conns[c].sid, raw))
    /\ UNCHANGED conns

\* One of the iteration orders.  The order decides only the leaderboard in
\* the messages sent, never the ServerState a handler leaves, so the
\* actions take one order; the properties range over all of IterOrders.
AnOrder(S) == CHOOSE o \in IterOrders(S) : TRUE

\* handle_client_message with ClientMessage::SubmitAnswer
ClientAnswer(c, question_index, answer) ==
    /\ Running
    /\ conns[c].pc = "open"
    /\ \E now \in NowChoices(St) :
           Commit(RenumberStamps(
               handle_answer(St, conns[c].sid, question_index, answer, now, AnOrder(St))))
    /\ UNCHANGED conns

\* handle_messages, lines 197-235: the read loop ends, the session is
\* marked disconnected.
Close(c) ==
    /\ Running
    /\ conns[c].pc = "open"
    /\ Commit(mark_disconnected(St, conns[c].sid))
    /\ conns' = [conns EXCEPT ![c] = ClosedConn]

\* run_tui / handle_input: the host enters a command line.
HostCommand(input) ==
    /\ Running
    /\ Commit(handle_input_enter(St, input, AnOrder(St)))
    /\ UNCHANGED conns

Next ==
    \/ \E c \in Conns, ip \in env.ips : Accept(c, ip)
    \/ \E c \in Conns : HandshakeFail(c)
    \/ \E c \in Conns : Attach(c)
    \/ \E c \in Conns, raw \in env.raw_names : ClientJoin(c, raw)
    \/ \E c \in Conns, qi \in 0..Len(questions), a \in AnswerChoices : ClientAnswer(c, qi, a)
    \/ \E c \in Conns : Close(c)
    \/ \E input \in env.host_inputs : HostCommand(input)

Spec == Init /\ [][Next]_vars

\* --------------------------------------------------- clients that answer
\* The participant at connection c answers the Question it received last.
\* Every handler that sets a session to Answering(k) enqueues Question{k}
\* in the same critical section (cmd_start, handle_join, handle_answer,
\* handle_connection), so that index is the k of its status.
AnswersCurrent(c) ==
    /\ conns[c].pc = "open"
    /\ sessions[conns[c].sid].status.tag = "Answering"
    /\ \E a \in AnswerChoices :
           ClientAnswer(c, sessions[conns[c].sid].status.idx, a)

\* The participant at connection c sends Join, but not in the middle of
\* its questions.
JoinsOutsideQuiz(c, raw) ==
    /\ conns[c].pc = "open"
    /\ sessions[conns[c].sid].status.tag # "Answering"
    /\ ClientJoin(c, raw)

LiveNext ==
    \/ \E c \in Conns, ip \in env.ips : Accept(c, ip)
    \/ \E c \in Conns : HandshakeFail(c)
    \/ \E c \in Conns : Attach(c)
    \/ \E c \in Conns, raw \in env.raw_names : JoinsOutsideQuiz(c, raw)
    \/ \E c \in Conns, qi \in 0..Len(questions), a \in AnswerChoices : ClientAnswer(c, qi, a)
    \/ \E c \in Conns : Close(c)
    \/ \E input \in env.host_inputs : HostCommand(input)

\* A quiz of two questions, in a run without the ban list.
LiveInit ==
    /\ Init
    /\ Len(questions) = 2
    /\ env.ips = {1}

\* The tokio scheduler runs every ready task, and a participant who is
\* answering keeps submitting: an answer that the server would accept is
\* eventually handled.
LiveSpec ==
    /\ LiveInit
    /\ [][LiveNext]_vars
    /\ \A c \in Conns : WF_vars(AnswersCurrent(c))

\* ------------------------------------------------------------ the two feeds
\* The pushes of one participant who answers the questions of a long quiz
\* in order: the n-th entry carries question_index n, so that every entry
\* of the feed can be told from every other.
Recorded == IF live_answers = <<>> THEN 0
            ELSE live_answers[Len(live_answers)].question_index + 1

\* handle_answer, lines 392-394: a named session's answer goes to the feed.
RecordLiveAnswer(answer) ==
    /\ Recorded < MaxRecorded
    /\ live_answers' = record_live_answer(St, NameAbc, Recorded, answer).live
    /\ UNCHANGED << serverVars, command_history, app, exited >>

\* The lines logged so far: the n-th line carries n as its argument.
Logged == IF command_history = <<>> THEN 0
          ELSE command_history[Len(command_history)].args[1] + 1

\* handle_input, lines 482-494, and the handlers: a line goes to the log.
AddToHistory(text) ==
    /\ Logged < MaxLogged
    /\ command_history' = add_to_history(St, Hist(text, <<Logged>>)).hist
    /\ UNCHANGED << serverVars, live_answers, app, exited >>

FeedNext ==
    \/ \E answer \in {0} : RecordLiveAnswer(answer)
    \/ \E text \in {"Unknown command: "} : AddToHistory(text)

FeedSpec == Init /\ [][FeedNext]_vars

\* ------------------------------------------------- the single-player quiz
\* Question lists the loader may supply: non-empty, correct_answer any
\* usize (10 is outside the four options).
RECURSIVE SeqsUpTo(_, _)
SeqsUpTo(S, n) ==
    IF n = 0 THEN { <<>> }
    ELSE SeqsUpTo(S, n - 1) \cup
         { Append(q, x) : q \in { r \in SeqsUpTo(S, n - 1) : Len(r) = n - 1 }, x \in S }

AppQuestionBanks ==
    SeqsUpTo({ [correct_answer |-> k] : k \in {0, 2, 10} }, MaxQuestions) \ { <<>> }

\* The App on any of the question lists; the server is not part of the
\* program and stays in one of its initial states.
AppInit ==
    /\ ServerInit
    /\ Len(questions) = 1
    /\ env.ips = {1}
    /\ \E qs \in AppQuestionBanks : app = App_new(qs)

\* run_app: one key event through handle_input
KeyPress(key) ==
    /\ ~exited
    /\ app' = handle_input(app, key).app
    /\ exited' = handle_input(app, key).exit
    /\ UNCHANGED << serverVars, live_answers, command_history >>

AppNext == \E key \in Keys : KeyPress(key)

AppSpec == AppInit /\ [][AppNext]_vars

\* ================================================================ claims
\* The properties below range over every reachable state and, in it, over
\* every input a handler can be given: they state what the handler returns
\* there (the ServerState it leaves and what it has enqueued and pushed).

OpenConns == { c \in Conns : conns[c].pc = "open" }
HandshakeConns == { c \in Conns : conns[c].pc = "handshake" }

\* Inputs of SubmitAnswer, a little wider than what the clients of a run send.
IndexInputs == 0..(Len(questions) + 1)
AnswerInputs == AnswerChoices \cup {0}

NoneSent == [c \in Conns |-> <<>>]

\* S and T are the same ServerState (outputs aside).
SameState(S, T) == [S EXCEPT !.sent = NoneSent, !.hist = <<>>, !.live = <<>>]
                   = [T EXCEPT !.sent = NoneSent, !.hist = <<>>, !.live = <<>>]

\* The count of contiguous set slots from the start of an answer list.
DerivedIndex(answers) ==
    Cardinality({ i \in 1..Len(answers) : \A j \in 1..i : answers[j] # None })

\* username is bound, in the username->session map, to a session other than id.
BoundToOther(username, id) ==
    username \in DOMAIN username_to_id /\ username_to_id[username] # id

\* A Join of raw on session id must be rejected.
MustReject(raw, id) ==
    \/ Len(Trim(raw)) < 3
    \/ Len(Trim(raw)) > 16
    \/ BoundToOther(Trim(raw), id)

\* S.sent holds exactly msgs on the channel of session id (if it has one)
\* and nothing on any other channel.
SentOnlyTo(S, id, msgs) ==
    S.sent = [c \in Conns |-> IF sessions[id].sender = Some(c) THEN msgs ELSE <<>>]

C2_JoinSucceeds ==
    \A c \in OpenConns, raw \in RawNames :
        LET id == conns[c].sid
            R == handle_join(St, id, raw)
        IN  ~MustReject(raw, id) =>
                /\ R.sessions[id].username = Some(Trim(raw))
                /\ Trim(raw) \in DOMAIN R.username_to_id
                /\ R.username_to_id[Trim(raw)] = id
                /\ \E ch \in Conns, i \in 1..3 :
                       /\ i <= Len(R.sent[ch])
                       /\ R.sent[ch][i] = JoinAccepted(Trim(raw))

\* ---- C3 ----------------------------------------------------------------
\* The part of C3 about handle_answer alone: a SubmitAnswer whose index
\* differs from the session's derived current index returns the ServerState
\* unchanged and enqueues and pushes nothing; one that is accepted changes
\* no slot but the one at the claimed index, which was unset and is the
\* first unset one; and in every state the set slots of a session are a
\* prefix of its answer list.
StaleAnswerNoOp ==
    /\ \A c \in OpenConns, qi \in IndexInputs, a \in AnswerInputs :
       \A now \in NowChoices(St), order \in IterOrders(St) :
           LET id == conns[c].sid
               before == sessions[id].answers
               R == handle_answer(St, id, qi, a, now, order)
               after == R.sessions[id].answers
           IN  IF qi # DerivedIndex(before)
               THEN R = St
               ELSE /\ Len(after) = Len(before)
                    /\ \A i \in 1..Len(before) :
                           after[i] # before[i] =>
                               /\ i = qi + 1
                               /\ before[i] = None
                               /\ \A j \in 1..(i - 1) : before[j] # None
    /\ \A id \in DOMAIN sessions :
           \A i \in 1..Len(sessions[id].answers) :
               sessions[id].answers[i] # None =>
                   \A j \in 1..i : sessions[id].answers[j] # None

\* A slot of a session, once set, keeps its value in the next state.
SlotsWrittenOnce ==
    \A id \in DOMAIN sessions :
        \A i \in 1..Len(sessions[id].answers) :
            sessions[id].answers[i] # None =>
                /\ i <= Len(sessions'[id].answers)
                /\ sessions'[id].answers[i] = sessions[id].answers[i]

\* C3: a SubmitAnswer whose index differs from the session's derived
\* current index is a no-op (no session field, feed, history or global
\* status changes and nothing is enqueued), and over a run each answer slot
\* is written at most once, the slots being filled in index order.
C3_StaleAnswerNoOp ==
    []StaleAnswerNoOp /\ [][SlotsWrittenOnce]_vars

\* ---- C4 ----------------------------------------------------------------
\* C4: when the answer for the last index is accepted (the claimed index
\* is the derived current index and is N-1), the session is Finished, its
\* finish time is stamped, its score is the number of questions the
\* session answered correctly, and the QuizResults enqueued for it carries
\* that score, total N and one AnswerResult per question whose flag is
\* (chosen = correct).
C4_FinishScore ==
    \A c \in OpenConns, a \in AnswerInputs :
    \A now \in NowChoices(St), order \in IterOrders(St) :
        LET id == conns[c].sid
            N == Len(questions)
            qi == N - 1
            R == handle_answer(St, id, qi, a, now, order)
            session == R.sessions[id]
            chosen(i) == IF i = N THEN a ELSE Unwrap(sessions[id].answers[i])
            right == { i \in 1..N : chosen(i) = questions[i].correct_answer }
        IN  (qi = DerivedIndex(sessions[id].answers) /\ sessions[id].sender # None) =>
                /\ session.status = Finished
                /\ session.finished_at = Some(now)
                /\ session.score = Some(Cardinality(right))
                /\ LET msgs == R.sent[Unwrap(sessions[id].sender)] IN
                   /\ Len(msgs) = 1
                   /\ msgs[1].type = "QuizResults"
                   /\ msgs[1].score = Cardinality(right)
                   /\ msgs[1].total = N
                   /\ Len(msgs[1].answers) = N
                   /\ \A i \in 1..Len(msgs[1].answers) :
                          /\ msgs[1].answers[i].question_index = i - 1
                          /\ msgs[1].answers[i].your_answer = chosen(i)
                          /\ msgs[1].answers[i].is_correct = (i \in right)

\* ---- C5 ----------------------------------------------------------------
FinishedNamed ==
    { id \in DOMAIN sessions :
          sessions[id].status = Finished /\ sessions[id].username # None }

\* The session that holds username u.
SessionNamed(u) == CHOOSE id \in DOMAIN sessions : sessions[id].username = Some(u)

RequestingNames == { NameAbc, X16, <<>> }

\* The leaderboard lb lists exactly the Finished named sessions, once
\* each, with their scores and with ranks 1..K in list order.
ListsFinishedNamed(lb) ==
    /\ Len(lb) = Cardinality(FinishedNamed)
    /\ { lb[i].username : i \in 1..Len(lb) }
           = { Unwrap(sessions[id].username) : id \in FinishedNamed }
    /\ \A i \in 1..Len(lb) :
           /\ lb[i].rank = i
           /\ lb[i].score = Unwrap(sessions[SessionNamed(lb[i].username)].score)

\* C5 amended: in every reachable state and for every iteration order of the
\* session map, generate_leaderboard returns exactly one entry per
\* Finished named session and none for any other; the ranks are 1..K in
\* list order; of two consecutive entries the first has the higher score,
\* or the same score and a finish time that is not later (two entries may
\* tie in both).
C5_Leaderboard ==
    \A order \in IterOrders(St), u \in RequestingNames :
        LET lb == generate_leaderboard(St, order, u) IN
        /\ ListsFinishedNamed(lb)
        /\ \A i \in 1..(Len(lb) - 1) :
               LET a == sessions[SessionNamed(lb[i].username)]
                   b == sessions[SessionNamed(lb[i + 1].username)]
               IN  \/ Unwrap(a.score) > Unwrap(b.score)
                   \/ /\ Unwrap(a.score) = Unwrap(b.score)
                      /\ Unwrap(a.finished_at) <= Unwrap(b.finished_at)

\* C5 as stated: the same, with consecutive entries strictly ordered by
\* (score descending, then finish time ascending).
C5_Original ==
    \A order \in IterOrders(St), u \in RequestingNames :
        LET lb == generate_leaderboard(St, order, u) IN
        /\ ListsFinishedNamed(lb)
        /\ \A i \in 1..(Len(lb) - 1) :
               LET a == sessions[SessionNamed(lb[i].username)]
                   b == sessions[SessionNamed(lb[i + 1].username)]
               IN  \/ Unwrap(a.score) > Unwrap(b.score)
                   \/ /\ Unwrap(a.score) = Unwrap(b.score)
                      /\ Unwrap(a.finished_at) < Unwrap(b.finished_at)

\* Two Finished named sessions, the one that finished later with the
\* higher score.
C5_Witness ==
    \E a, b \in FinishedNamed :
        /\ Unwrap(sessions[a].score) > Unwrap(sessions[b].score)
        /\ Unwrap(sessions[a].finished_at) > Unwrap(sessions[b].finished_at)

\* ---- C6 ----------------------------------------------------------------
\* The session ids in creation order (a session takes the id of the
\* connection that created it, and connections are accepted in order).
RECURSIVE Ascending(_)
Ascending(ids) ==
    IF ids = {} THEN <<>>
    ELSE LET least == CHOOSE x \in ids : \A y \in ids : x <= y
         IN  <<least>> \o Ascending(ids \ {least})

\* C6: the leaderboard does not depend on the iteration order of the
\* session map: whatever the order, it is the list ordered by score, then
\* finish time, then session creation order.
C6_Deterministic ==
    \A order \in IterOrders(St), u \in RequestingNames :
        generate_leaderboard(St, order, u)
            = generate_leaderboard(St, Ascending(DOMAIN sessions), u)

\* ---- C7 ----------------------------------------------------------------
\* The connection c has passed the ban check and its address maps to a
\* Disconnected session.
MapsToDisconnected(c) ==
    /\ conns[c].ip \in DOMAIN ip_to_id
    /\ sessions[ip_to_id[conns[c].ip]].status = Disconnected

\* Attaching c leaves the number of sessions, the address mapping and the
\* session's username, answers and score as they are, and the session is
\* the one the connection serves.
Reattaches(c) ==
    LET ip == conns[c].ip
        id == ip_to_id[ip]
        R == attach_connection(St, ip, c, c)
    IN  /\ DOMAIN R.sessions = DOMAIN sessions
        /\ R.ip_to_id = ip_to_id
        /\ R.sessions[id].username = sessions[id].username
        /\ R.sessions[id].answers = sessions[id].answers
        /\ R.sessions[id].score = sessions[id].score
        /\ R.sessions[id].sender = Some(c)
        /\ connection_session_id(St, ip, c) = id

\* C7: a connection from an address that is not banned and maps to a
\* Disconnected session, with or without a username, re-attaches that
\* session: the number of sessions and the address mapping are unchanged,
\* and so are the session's username, answers and score.
C7_Reattach ==
    \A c \in HandshakeConns :
        (MapsToDisconnected(c) /\ conns[c].ip \notin banned_ips) => Reattaches(c)

\* ---- C8 ----------------------------------------------------------------
\* C8: a re-attached session is InLobby if the global status is Lobby,
\* Answering(k) if it is InProgress and k < N, and Finished if k >= N
\* while the global status is InProgress or Finished (k the derived
\* current index).
C8_RestoredStatus ==
    \A c \in HandshakeConns :
        (MapsToDisconnected(c) /\ sessions[ip_to_id[conns[c].ip]].username # None) =>
            LET id == ip_to_id[conns[c].ip]
                k == DerivedIndex(sessions[id].answers)
                restored == attach_connection(St, conns[c].ip, c, c).sessions[id].status
            IN  /\ status = "Lobby" => restored = InLobby
                /\ (status = "InProgress" /\ k < Len(questions)) => restored = Answering(k)
                /\ (status # "Lobby" /\ k >= Len(questions)) => restored = Finished

\* ---- C9 ----------------------------------------------------------------
\* C9: on re-attachment the new channel gets ReconnectAccepted with the
\* session's username and derived current index k first; Question{k}
\* follows when the global status is InProgress and k < N; nothing else
\* (no Question otherwise, no ConnectionAck) is enqueued on it.
C9_ReconnectMessages ==
    \A c \in HandshakeConns :
        (MapsToDisconnected(c) /\ sessions[ip_to_id[conns[c].ip]].username # None) =>
            LET id == ip_to_id[conns[c].ip]
                k == DerivedIndex(sessions[id].answers)
                first == ReconnectAccepted(Unwrap(sessions[id].username), k)
                R == attach_connection(St, conns[c].ip, c, c)
            IN  R.sent[c] = IF status = "InProgress" /\ k < Len(questions)
                            THEN << first, Question(k) >>
                            ELSE << first >>

\* A connection about to re-attach, while the quiz is in progress, a
\* session that has answered question 0 of two.
C9_Witness ==
    \E c \in HandshakeConns :
        /\ MapsToDisconnected(c)
        /\ sessions[ip_to_id[conns[c].ip]].username # None
        /\ status = "InProgress"
        /\ Len(questions) = 2
        /\ DerivedIndex(sessions[ip_to_id[conns[c].ip]].answers) = 1

\* ---- C10 ---------------------------------------------------------------
\* C10: a connection whose address is in the banned set when its session
\* would be created or re-attached creates no session, re-attaches none
\* and is sent nothing.
C10_NoAttachWhenBanned ==
    \A c \in HandshakeConns :
        conns[c].ip \in banned_ips =>
            LET R == attach_connection(St, conns[c].ip, c, c) IN
            /\ R.sessions = sessions
            /\ R.sent[c] = <<>>

\* ---- C11 ---------------------------------------------------------------
\* Command lines the host can type, as split_whitespace leaves them.
HostLines ==
    QuizInputs \cup BanInputs \cup
    { <<>>, <<"START">>, <<"Stop">>, <<"exit">>, <<"bogus">>,
      <<"kick">>, <<"ban">>, <<"unban">>, <<"unban", 0>>,
      <<"view">>, <<"view", <<"A", "L", "L">>>>, <<"view", NameAbc>>,
      <<"list">>, <<"list", <<"B", "a", "n", "s">>>>, <<"help">>, <<"?">> }

\* The command word of a line, lower-cased ("" for the empty line).
CommandOf(line) == IF line = <<>> THEN "" ELSE to_lowercase(line[1])

\* In this state no handler changes the global status, except a successful
\* start (Lobby to InProgress) and a successful stop (InProgress to Finished).
OnlyStartAndStopChangeStatus ==
    /\ \A line \in HostLines, order \in IterOrders(St) :
           LET R == handle_input_enter(St, line, order)
               ok == execute_command(St, line, order).kind = "Ok"
           IN  \/ R.status = status
               \/ /\ CommandOf(line) = "start" /\ ok
                  /\ status = "Lobby" /\ R.status = "InProgress"
               \/ /\ CommandOf(line) = "stop" /\ ok
                  /\ status = "InProgress" /\ R.status = "Finished"
    /\ \A c \in OpenConns :
           /\ \A raw \in RawNames : handle_join(St, conns[c].sid, raw).status = status
           /\ \A qi \in IndexInputs, a \in AnswerInputs :
              \A now \in NowChoices(St), order \in IterOrders(St) :
                  handle_answer(St, conns[c].sid, qi, a, now, order).status = status
           /\ mark_disconnected(St, conns[c].sid).status = status
    /\ \A c \in HandshakeConns :
           attach_connection(St, conns[c].ip, c, c).status = status

\* A step changes the global status only from Lobby to InProgress or from
\* InProgress to Finished.
StatusAdvances ==
    status' # status =>
        \/ status = "Lobby" /\ status' = "InProgress"
        \/ status = "InProgress" /\ status' = "Finished"

\* C11: the global status changes only Lobby -> InProgress, by a successful
\* start, and InProgress -> Finished, by a successful stop; no step makes
\* it regress or skip a stage, and no other operation (any other host
\* command, Join, SubmitAnswer, connect, disconnect) changes it.
C11_StatusMonotonic ==
    []OnlyStartAndStopChangeStatus /\ [][StatusAdvances]_vars

\* The quiz was started and stopped.
C11_Witness == status = "Finished"

\* ---- C12 ---------------------------------------------------------------
StartLines == { line \in HostLines : CommandOf(line) = "start" }

NoSessionNamed == \A id \in DOMAIN sessions : sessions[id].username = None

\* C12: start when no session has a username returns an error, leaves the
\* global status at Lobby, changes no session and enqueues no message;
\* start when the global status is not Lobby returns an error and changes
\* nothing either.
C12_StartRejected ==
    \A line \in StartLines, order \in IterOrders(St) :
        (NoSessionNamed \/ status # "Lobby") =>
            LET r == execute_command(St, line, order) IN
            /\ r.kind = "Error"
            /\ r.S = St
            /\ r.S.status = status
            /\ r.S.sessions = sessions
            /\ r.S.sent = NoneSent
            /\ NoSessionNamed => status = "Lobby"

\* The lobby holds a connected session, and no session has a username.
C12_Witness ==
    /\ status = "Lobby"
    /\ NoSessionNamed
    /\ \E id \in DOMAIN sessions : sessions[id].sender # None

\* ---- C13 ---------------------------------------------------------------
StopLines == { line \in HostLines : CommandOf(line) = "stop" }

\* stop outside InProgress is an error that changes nothing and sends
\* nothing; stop while InProgress succeeds and sets the status to Finished.
StopOnlyInProgress ==
    \A line \in StopLines, order \in IterOrders(St) :
        LET r == execute_command(St, line, order) IN
        IF status = "InProgress"
        THEN r.kind = "Ok" /\ r.S.status = "Finished"
        ELSE /\ r.kind = "Error"
             /\ r.msg = Some(Hist("Quiz is not in progress.", <<>>))
             /\ r.S = St

\* C13: stop while the global status is Lobby or Finished returns an
\* error, changes no state and enqueues no message; while InProgress it
\* sets the global status to Finished.  The status never leaves Finished,
\* so at most one stop of a run succeeds and every later one gets the
\* not-in-progress error.
C13_StopOnce ==
    []StopOnlyInProgress /\ [][status = "Finished" => status' = "Finished"]_vars

\* A stop has succeeded (any further stop gets the error) and a connection
\* has closed.
C13_Witness == status = "Finished" /\ \E c \in Conns : conns[c].pc = "closed"

\* ---- C14 ---------------------------------------------------------------
\* The session has a username and is connected (it holds a channel and is
\* not Disconnected).
NamedAndConnected(id) ==
    /\ sessions[id].username # None
    /\ sessions[id].sender # None
    /\ sessions[id].status # Disconnected

\* C14: a successful start (global status Lobby, at least one session with
\* a username) gives every InLobby session an answer list of N unset slots
\* and status Answering(0), sets the global status to InProgress, and
\* enqueues QuizStart{N} followed by Question{0} on the channel of every
\* session that has a username and is connected, and on no other channel.
C14_StartEffects ==
    \A line \in StartLines, order \in IterOrders(St) :
        (status = "Lobby" /\ ~NoSessionNamed) =>
            LET r == execute_command(St, line, order)
                N == Len(questions)
            IN  /\ r.kind = "Ok"
                /\ r.S.status = "InProgress"
                /\ \A id \in DOMAIN sessions :
                       sessions[id].status = InLobby =>
                           /\ r.S.sessions[id].answers = [i \in 1..N |-> None]
                           /\ r.S.sessions[id].status = Answering(0)
                /\ r.S.sent =
                       [c \in Conns |->
                           IF \E id \in DOMAIN sessions :
                                  NamedAndConnected(id) /\ sessions[id].sender = Some(c)
                           THEN << QuizStart(N), Question(0) >>
                           ELSE <<>>]

\* The lobby holds a connected InLobby session and a connected session
\* without a username.
C14_Witness ==
    /\ status = "Lobby"
    /\ \E a, b \in DOMAIN sessions :
           /\ sessions[a].status = InLobby /\ sessions[a].sender # None
           /\ sessions[b].username = None /\ sessions[b].sender # None

\* ---- C15 ---------------------------------------------------------------
\* The number of slots of the session that hold the correct answer.
MatchingSlots(id) ==
    Cardinality({ i \in 1..Len(sessions[id].answers) :
                      /\ i <= Len(questions)
                      /\ sessions[id].answers[i] # None
                      /\ Unwrap(sessions[id].answers[i]) = questions[i].correct_answer })

\* msgs is exactly one QuizResults with the score and total of session id.
OneQuizResults(msgs, id) ==
    /\ Len(msgs) = 1
    /\ msgs[1].type = "QuizResults"
    /\ msgs[1].score = MatchingSlots(id)
    /\ msgs[1].total = Len(questions)

\* sent holds one QuizResults on the channel of each Finished session that
\* holds one, one HostEndedQuiz on the channel of every other connected
\* session, and nothing on any other channel.
StopDelivers(sent) ==
    /\ \A id \in DOMAIN sessions :
           sessions[id].sender # None =>
               LET msgs == sent[Unwrap(sessions[id].sender)] IN
               IF sessions[id].status = Finished THEN OneQuizResults(msgs, id)
               ELSE IF sessions[id].status # Disconnected THEN msgs = << HostEndedQuiz >>
               ELSE msgs = <<>>
    /\ \A c \in Conns :
           (\A id \in DOMAIN sessions : sessions[id].sender # Some(c)) => sent[c] = <<>>

\* C15 as stated: a successful stop delivers exactly one QuizResults to
\* every session whose status is Finished, exactly one HostEndedQuiz to
\* every other connected session and nothing to any other session.
C15_Original ==
    \A line \in StopLines, order \in IterOrders(St) :
        status = "InProgress" =>
            LET r == execute_command(St, line, order) IN
            /\ StopDelivers(r.S.sent)
            /\ \A id \in DOMAIN sessions :
                   sessions[id].status = Finished => sessions[id].sender # None

\* C15 amended: a successful stop enqueues exactly one QuizResults (score =
\* number of its slots that hold the correct answer, total = N) for every
\* Finished session that holds a channel, exactly one HostEndedQuiz for
\* every other connected session, and nothing else; a Finished session
\* whose connection has closed holds no channel and is sent nothing.
C15_StopResults ==
    \A line \in StopLines, order \in IterOrders(St) :
        status = "InProgress" =>
            LET r == execute_command(St, line, order) IN
            /\ r.kind = "Ok"
            /\ StopDelivers(r.S.sent)

\* A quiz in progress with a Finished session that gave a wrong answer and
\* a connected session that is still answering.
C15_Witness ==
    /\ status = "InProgress"
    /\ \E a, b \in DOMAIN sessions :
           /\ sessions[a].status = Finished /\ sessions[a].sender # None
           /\ MatchingSlots(a) < Len(sessions[a].answers)
           /\ sessions[b].status.tag = "Answering" /\ sessions[b].sender # None

\* ---- C16 ---------------------------------------------------------------
\* A leaderboard without its is_you flags.
Ranking(lb) ==
    [i \in 1..Len(lb) |->
        [ rank |-> lb[i].rank, username |-> lb[i].username,
          score |-> lb[i].score, total |-> lb[i].total ]]

\* The sessions that one stop sends a QuizResults to.
ResultRecipients ==
    { id \in DOMAIN sessions : sessions[id].status = Finished /\ sessions[id].sender # None }

\* C16: all QuizResults produced by one stop carry the same leaderboard
\* (usernames, scores, totals and ranks in the same order); they differ
\* only in is_you, which is true on exactly the recipient's own entry and
\* false on every other entry.
C16_SameLeaderboard ==
    \A line \in StopLines, order \in IterOrders(St) :
        status = "InProgress" =>
            LET r == execute_command(St, line, order)
                board(id) == r.S.sent[Unwrap(sessions[id].sender)][1].leaderboard
            IN  /\ \A a, b \in ResultRecipients : Ranking(board(a)) = Ranking(board(b))
                /\ \A id \in ResultRecipients :
                       /\ \A i \in 1..Len(board(id)) :
                              board(id)[i].is_you
                                  <=> (sessions[id].username = Some(board(id)[i].username))
                       /\ sessions[id].username # None =>
                              Cardinality({ i \in 1..Len(board(id)) : board(id)[i].is_you }) = 1

\* A quiz in progress with two Finished named sessions that hold channels.
C16_Witness ==
    /\ status = "InProgress"
    /\ \E a, b \in ResultRecipients :
           a # b /\ sessions[a].username # None /\ sessions[b].username # None

\* ---- C17 ---------------------------------------------------------------
\* C17: in every reachable state the usernames held by sessions are
\* pairwise distinct.
C17_UsernamesUnique ==
    \A a, b \in DOMAIN sessions :
        (a # b /\ sessions[a].username # None) => sessions[a].username # sessions[b].username

\* Two sessions have a username.
C17_Witness ==
    \E a, b \in DOMAIN sessions :
        /\ a # b
        /\ sessions[a].username # None
        /\ sessions[b].username # None

\* ---- C18 ---------------------------------------------------------------
\* A session that has a username has the same one in the next state.
UsernameKept ==
    \A id \in DOMAIN sessions :
        sessions[id].username # None => sessions'[id].username = sessions[id].username

\* C18: once a session's username has been set by a successful Join it
\* never changes: no later Join on the session, reconnect or host command
\* alters it.
C18_UsernameImmutable == [][UsernameKept]_vars

\* ---- C19 ---------------------------------------------------------------
\* The session is active: it holds a channel and is not Disconnected.
Active(session) == session.sender # None /\ session.status # Disconnected

\* The derived current index of a session that is active before and after
\* the step does not decrease.
IndexKept ==
    \A id \in DOMAIN sessions :
        (Active(sessions[id]) /\ Active(sessions'[id])) =>
            DerivedIndex(sessions'[id].answers) >= DerivedIndex(sessions[id].answers)

\* C19: a session's derived current question index never decreases from
\* one state to the next while the session is active, whatever the
\* sequence of Join, SubmitAnswer, reconnect, start and stop; answers
\* already recorded are never erased.
C19_IndexMonotonic == [][IndexKept]_vars

\* ---- C20 ---------------------------------------------------------------
\* C20: in every reachable state, while the global status is Lobby no
\* session is Answering(_) or Finished, and while the global status is
\* InProgress or Finished no connected session that has a username is
\* InLobby.
C20_StatusConsistent ==
    /\ status = "Lobby" =>
           \A id \in DOMAIN sessions :
               sessions[id].status.tag \notin { "Answering", "Finished" }
    /\ status \in { "InProgress", "Finished" } =>
           \A id \in DOMAIN sessions :
               (sessions[id].username # None /\ Active(sessions[id])) =>
                   sessions[id].status # InLobby

\* ---- C21 ---------------------------------------------------------------
\* A Join of raw is accepted: the trimmed name has a valid length and is
\* not a key of the username map.
JoinAccepts(raw) ==
    /\ Len(Trim(raw)) \in USERNAME_MIN_LENGTH..USERNAME_MAX_LENGTH
    /\ Trim(raw) \notin DOMAIN username_to_id

\* The session state an accepted Join leaves and the messages it builds.
JoinOutcome(R, id, raw, msgs) ==
    LET N == Len(questions) IN
    /\ status = "InProgress" =>
           /\ R.sessions[id].answers = [i \in 1..N |-> None]
           /\ R.sessions[id].status = Answering(0)
           /\ msgs = << JoinAccepted(Trim(raw)), QuizStart(N), Question(0) >>
    /\ status = "Lobby" =>
           /\ R.sessions[id].status = InLobby
           /\ msgs = << JoinAccepted(Trim(raw)) >>

C22_AcceptedAnswer ==
    \A c \in OpenConns, k \in IndexInputs, a \in AnswerInputs :
    \A now \in NowChoices(St), order \in IterOrders(St) :
        LET id == conns[c].sid
            R == handle_answer(St, id, k, a, now, order)
        IN  (k = DerivedIndex(sessions[id].answers) /\ k + 1 < Len(questions)) =>
                /\ Len(R.sessions[id].answers) > k
                /\ R.sessions[id].answers[k + 1] = Some(a)
                /\ Len(R.live) = 1
                /\ R.sessions[id].status = Answering(k + 1)
                /\ SentOnlyTo(R, id, << Question(k + 1) >>)
                /\ \A other \in DOMAIN sessions \ {id} :
                       R.sessions[other] = sessions[other]

\* ---- C23 ---------------------------------------------------------------
KickBanLines ==
    { line \in HostLines : CommandOf(line) \in { "kick", "ban" } /\ Len(line) = 2 }

\* What kick or ban of session id leaves: channel cleared, Disconnected,
\* the address banned by ban only; username, answers and score of the
\* target, every other session, both maps and the global status unchanged.
KickedOut(r, line, id) ==
    /\ r.kind = "Ok"
    /\ r.S.sessions[id].sender = None
    /\ r.S.sessions[id].status = Disconnected
    /\ r.S.banned_ips = IF CommandOf(line) = "ban"
                        THEN banned_ips \cup { sessions[id].ip_addr }
                        ELSE banned_ips
    /\ r.S.sessions[id].username = sessions[id].username
    /\ r.S.sessions[id].answers = sessions[id].answers
    /\ r.S.sessions[id].score = sessions[id].score
    /\ DOMAIN r.S.sessions = DOMAIN sessions
    /\ \A other \in DOMAIN sessions \ {id} : r.S.sessions[other] = sessions[other]
    /\ r.S.username_to_id = username_to_id
    /\ r.S.ip_to_id = ip_to_id
    /\ r.S.status = status

\* The Kicked message of the command.
KickedBy(line) ==
    Kicked(IF CommandOf(line) = "ban" THEN "Banned by host" ELSE "Kicked by host")

\* C23: kick/ban of a username that a session has enqueues Kicked on that
\* session's channel, clears the channel and sets Disconnected (ban also
\* bans the session's address), leaving the target's username, answers and
\* score, every other session, both maps and the global status as they
\* are; for a username no session has, both return an error and change
\* nothing.
C23_KickBan ==
    \A line \in KickBanLines, order \in IterOrders(St) :
        LET r == execute_command(St, line, order)
            holders == { id \in DOMAIN sessions : sessions[id].username = Some(line[2]) }
        IN  IF holders # {}
            THEN \A id \in holders :
                     /\ KickedOut(r, line, id)
                     /\ SentOnlyTo(r.S, id, << KickedBy(line) >>)
            ELSE r.kind = "Error" /\ r.S = St

\* ---- C24 ---------------------------------------------------------------
\* C24: in every reachable state no session with status Disconnected holds
\* a channel, and no session with status Connected, InLobby or
\* Answering(_) lacks one.
C24_ChannelIffConnected ==
    \A id \in DOMAIN sessions :
        /\ sessions[id].status = Disconnected => sessions[id].sender = None
        /\ sessions[id].status.tag \in { "Connected", "InLobby", "Answering" } =>
               sessions[id].sender # None

\* ---- C25 ---------------------------------------------------------------
\* What the end of the read loop of a connection leaves of its session id:
\* the channel cleared, the session still in the registry with username,
\* answers and score unchanged, nothing else changed.
TornDown(R, id) ==
    /\ R.sessions[id].sender = None
    /\ R.sessions[id].username = sessions[id].username
    /\ R.sessions[id].answers = sessions[id].answers
    /\ R.sessions[id].score = sessions[id].score
    /\ DOMAIN R.sessions = DOMAIN sessions
    /\ \A other \in DOMAIN sessions \ {id} : R.sessions[other] = sessions[other]
    /\ R.username_to_id = username_to_id
    /\ R.ip_to_id = ip_to_id

\* C25 as stated: when the read loop of a connection ends its session
\* becomes Disconnected and its channel is cleared, whatever the status
\* was (Connected, InLobby, Answering or Finished); the session stays in
\* the registry with username, answers and score unchanged.
C25_Original ==
    \A c \in OpenConns :
        LET R == mark_disconnected(St, conns[c].sid) IN
        /\ TornDown(R, conns[c].sid)
        /\ R.sessions[conns[c].sid].status = Disconnected

\* C25 amended: the channel is cleared whatever the status was; the status
\* becomes Disconnected unless it was Finished, and a Finished session
\* stays Finished; the session stays in the registry with username,
\* answers and score unchanged.
C25_CloseDisconnects ==
    \A c \in OpenConns :
        LET R == mark_disconnected(St, conns[c].sid) IN
        /\ TornDown(R, conns[c].sid)
        /\ R.sessions[conns[c].sid].status =
               IF sessions[conns[c].sid].status = Finished THEN Finished ELSE Disconnected

\* An open connection whose session is Finished, and one whose session is
\* answering.
C25_Witness ==
    \E c, d \in OpenConns :
        /\ sessions[conns[c].sid].status = Finished
        /\ sessions[conns[c].sid].sender = Some(c)
        /\ sessions[conns[d].sid].status.tag = "Answering"

\* ---- C26 (FeedSpec) ----------------------------------------------------
\* What a bounded FIFO of capacity cap holds after e is appended to feed.
FifoPush(feed, e, cap) ==
    IF Len(feed) = cap
    THEN [i \in 1..cap |-> IF i < cap THEN feed[i + 1] ELSE e]
    ELSE [i \in 1..(Len(feed) + 1) |-> IF i <= Len(feed) THEN feed[i] ELSE e]

\* Entries a handler may push on the live-answer feed.
LiveInputs ==
    { [username |-> u, question_index |-> qi, answer |-> a] :
          u \in {NameAbc, X16}, qi \in {0, Recorded}, a \in {0, 4} }

\* Lines a handler may push on the history.
HistoryInputs ==
    { Hist(t, <<n>>) : t \in {"Quiz started!", "Unknown command: "}, n \in {0, Logged} }

\* C26: in every reachable state the live-answer feed holds at most 50
\* entries and the history at most 100; an append that would exceed the
\* bound evicts exactly the oldest entry and keeps the order of the others,
\* and any other append only adds the entry at the end.
C26_BoundedFeeds ==
    /\ Len(live_answers) <= 50
    /\ Len(command_history) <= 100
    /\ \A e \in LiveInputs :
           record_live_answer(St, e.username, e.question_index, e.answer).live
               = FifoPush(live_answers, e, 50)
    /\ \A m \in HistoryInputs :
           add_to_history(St, m).hist = FifoPush(command_history, m, 100)

\* Both feeds are full and have already evicted their first entries.
C26_Witness ==
    /\ Len(live_answers) = 50
    /\ live_answers[1].question_index > 0
    /\ Len(command_history) = 100
    /\ command_history[1].args[1] > 0

\* ---- C27 ---------------------------------------------------------------
\* Messages a broadcast may carry.
BroadcastInputs == { HostEndedQuiz, QuizStart(Len(questions)) }

\* The sessions that hold an outbound channel and are not Disconnected.
ConnectedSessions ==
    { id \in DOMAIN sessions :
          sessions[id].sender # None /\ sessions[id].status # Disconnected }

\* msg is enqueued once on the channel of every session of ids, and nothing
\* is enqueued on any other channel.
EnqueuedExactlyOn(sent, ids, msg) ==
    /\ \A id \in ids : sent[Unwrap(sessions[id].sender)] = <<msg>>
    /\ \A c \in Conns :
           (\A id \in ids : sessions[id].sender # Some(c)) => sent[c] = <<>>

QuitLines == { line \in HostLines : CommandOf(line) \in { "quit", "exit" } }

\* C27: broadcast enqueues the message on exactly the sessions that have a
\* username and are connected, broadcast_all on exactly the connected
\* sessions, named or not; quit / exit sends HostEndedQuiz via
\* broadcast_all, sets the shutdown flag, returns the quit signal and
\* leaves the global status and every session unchanged.
C27_BroadcastAndQuit ==
    /\ \A msg \in BroadcastInputs :
           /\ EnqueuedExactlyOn(broadcast(St, msg).sent,
                  { id \in ConnectedSessions : sessions[id].username # None }, msg)
           /\ EnqueuedExactlyOn(broadcast_all(St, msg).sent, ConnectedSessions, msg)
           /\ SameState(broadcast(St, msg), St)
           /\ SameState(broadcast_all(St, msg), St)
    /\ \A line \in QuitLines, order \in IterOrders(St) :
           LET r == execute_command(St, line, order) IN
           /\ r.kind = "Quit"
           /\ r.S.should_quit
           /\ r.S.sent = broadcast_all(St, HostEndedQuiz).sent
           /\ EnqueuedExactlyOn(r.S.sent, ConnectedSessions, HostEndedQuiz)
           /\ r.S.status = status
           /\ r.S.sessions = sessions
           /\ SameState([r.S EXCEPT !.should_quit = should_quit], St)
           /\ handle_input_enter(St, line, order) = r.S

\* The server is running with a connected session that has a username and
\* a connected session that has none.
C27_Witness ==
    /\ ~should_quit
    /\ \E id \in ConnectedSessions : sessions[id].username # None
    /\ \E id \in ConnectedSessions : sessions[id].username = None

\* ---- C28 ---------------------------------------------------------------
UnbanLines == { line \in HostLines : CommandOf(line) = "unban" }

\* The argument of the line is the text of an address in the ban set.
NamesBannedIp(line) ==
    /\ Len(line) >= 2
    /\ line[2] \in IPs
    /\ line[2] \in banned_ips

\* handle_connection, lines 66-72: a connection from ip passes the ban check.
PassesBanCheck(S, ip) == ip \notin S.banned_ips

\* C28: unban <ip> removes the address from the ban set and returns success
\* when the argument is the text of a banned address; when the argument is
\* missing, is no address or names an address that is not banned it returns
\* an error and leaves the ban set unchanged.  In every case sessions, both
\* maps and the global status are unchanged, and after a successful unban a
\* connection from that address passes the ban check.
C28_Unban ==
    \A line \in UnbanLines, order \in IterOrders(St) :
        LET r == execute_command(St, line, order) IN
        /\ IF NamesBannedIp(line)
           THEN /\ r.kind = "Ok"
                /\ r.S.banned_ips = banned_ips \ {line[2]}
                /\ PassesBanCheck(r.S, line[2])
                /\ PassesBanCheck(handle_input_enter(St, line, order), line[2])
           ELSE /\ r.kind = "Error"
                /\ r.S.banned_ips = banned_ips
        /\ r.S.sessions = sessions
        /\ r.S.username_to_id = username_to_id
        /\ r.S.ip_to_id = ip_to_id
        /\ r.S.status = status
        /\ r.S.sent = NoneSent

\* An address is banned and the connection that came from it is closed, so
\* that the next connection from it meets the ban check.
C28_Witness ==
    /\ ~should_quit
    /\ \E ip \in banned_ips :
           /\ <<"unban", ip>> \in UnbanLines
           /\ \E c \in Conns : conns[c].pc = "idle"

\* ---- C29 (AppSpec) -----------------------------------------------------
\* The options a player can select.
SelectableOptions == 0..(NUM_OPTIONS - 1)

\* Answer vectors: every slot unset, a selectable option, or 10.
AnswerVectors ==
    SeqsUpTo({ None, Some(0), Some(2), Some(3), Some(10) }, MaxQuestions)

\* The number of positions where the answer is set and equals the
\* question's correct_answer.
MatchingPositions(answers, qs) ==
    Cardinality({ i \in (DOMAIN answers) \cap (DOMAIN qs) :
                      /\ answers[i] # None
                      /\ Unwrap(answers[i]) = qs[i].correct_answer })

\* Every set slot of the vector holds a selectable option.
Selectable(answers) ==
    \A i \in DOMAIN answers : answers[i] # None => Unwrap(answers[i]) \in SelectableOptions

\* The vector with slot i unset.
Unset(answers, i) == [answers EXCEPT ![i] = None]

\* C29: calculate_score returns, for every answer vector and question
\* list, the number of positions where the answer is set and equals the
\* question's correct_answer: an unset slot never counts, and a question
\* whose correct_answer is outside 0..3 is never scored by a selectable
\* option.
C29_ScoreCountsMatches ==
    /\ App_calculate_score(app) = MatchingPositions(app.answers, app.questions)
    /\ Selectable(app.answers)
    /\ \A v \in AnswerVectors :
           LET a == [app EXCEPT !.answers = v]
               session == [answers |-> v]
           IN
           /\ App_calculate_score(a) = MatchingPositions(v, app.questions)
           /\ calculate_score(session, app.questions) = MatchingPositions(v, app.questions)
           /\ \A i \in DOMAIN v :
                  v[i] = None => App_calculate_score(a) <= Len(v) - 1
           /\ \A i \in (DOMAIN v) \cap (DOMAIN app.questions) :
                  (Selectable(v) /\ app.questions[i].correct_answer \notin SelectableOptions) =>
                      /\ App_calculate_score(a) =
                             App_calculate_score([a EXCEPT !.answers = Unset(v, i)])
                      /\ calculate_score(session, app.questions) =
                             calculate_score([answers |-> Unset(v, i)], app.questions)

\* The quiz is over with a question whose correct_answer is 10 among the
\* questions and a positive score.
C29_Witness ==
    /\ app.state = "Result"
    /\ \E i \in DOMAIN app.questions : app.questions[i].correct_answer = 10
    /\ App_calculate_score(app) > 0

\* ---- C30 (AppSpec) -----------------------------------------------------
\* The submits since the quiz was started or restarted: every submit sets
\* one more slot, restart unsets them all.
Submits == Cardinality({ i \in DOMAIN app.answers : app.answers[i] # None })

\* C30: submit_answer stores the selected option in the slot of the
\* current question, advances the current question index by one and resets
\* the selected option to 0; after exactly N submits from the first
\* question (N the number of questions) the state is Result, and before the
\* N-th submit it is not.
C30_SubmitAdvances ==
    LET N == Len(app.questions) IN
    /\ app.current_question_index = Submits
    /\ app.state = "Result" <=> Submits = N
    /\ app.state \in { "Welcome", "Quiz", "Result" }
    /\ app.state = "Quiz" =>
           \A key \in { "Enter", "Space" } :
               LET R == handle_input(app, key).app
                   k == app.current_question_index
               IN
               /\ R = submit_answer(app)
               /\ R.answers = [app.answers EXCEPT ![k + 1] = Some(app.selected_option)]
               /\ R.current_question_index = k + 1
               /\ R.selected_option = 0
               /\ R.questions = app.questions
               /\ R.state = IF k + 1 = N THEN "Result" ELSE "Quiz"

\* The last question of a quiz of three is on screen with option 2 selected.
C30_Witness ==
    /\ app.state = "Quiz"
    /\ Len(app.questions) = MaxQuestions
    /\ app.current_question_index = MaxQuestions - 1
    /\ app.selected_option = 2

\* ---- C31 (AppSpec) -----------------------------------------------------
\* C31: the selected option is always in 0..3; select-next from 3 gives 0
\* and select-previous from 0 gives 3; select-next then select-previous,
\* and the reverse, is the identity, and so are four select-next.
C31_SelectionWraps ==
    LET next(a) == handle_quiz_input(a, "Down").app
        prev(a) == handle_quiz_input(a, "Up").app
    IN
    /\ app.selected_option \in 0..3
    /\ next(app) = select_next_option(app)
    /\ prev(app) = select_previous_option(app)
    /\ app.selected_option = 3 => next(app).selected_option = 0
    /\ app.selected_option = 0 => prev(app).selected_option = 3
    /\ app.selected_option < 3 => next(app).selected_option = app.selected_option + 1
    /\ app.selected_option > 0 => prev(app).selected_option = app.selected_option - 1
    /\ prev(next(app)) = app
    /\ next(prev(app)) = app
    /\ next(next(next(next(app)))) = app

\* The second or a later question is on screen with the last option
\* selected.
C31_Witness ==
    /\ app.state = "Quiz"
    /\ app.selected_option = 3
    /\ app.current_question_index > 0
    /\ app.answers[1] = Some(1)

\* ---- C32 ---------------------------------------------------------------
\* C32: in every reachable state a session whose status is Answering(k) has
\* an answer list of length N (the number of questions), k < N, and k
\* equals its derived current question index.
C32_AnsweringWellFormed ==
    \A id \in DOMAIN sessions :
        sessions[id].status.tag = "Answering" =>
            /\ Len(sessions[id].answers) = Len(questions)
            /\ sessions[id].status.idx < Len(questions)
            /\ sessions[id].status.idx = current_question_index(sessions[id])

\* ---- C33 ---------------------------------------------------------------
\* C33: handle_answer changes state only for a session whose status is
\* Answering(k) with k the claimed index; a SubmitAnswer for a session that
\* is Connected, InLobby, Finished or Disconnected, or for another index,
\* changes no session field and enqueues no message.
C33_AnswerOnlyWhenAnswering ==
    \A c \in OpenConns, k \in IndexInputs, a \in AnswerInputs :
    \A now \in NowChoices(St), order \in IterOrders(St) :
        LET id == conns[c].sid
            R == handle_answer(St, id, k, a, now, order)
        IN  sessions[id].status # Answering(k) =>
                /\ R.sessions = sessions
                /\ R.sent = NoneSent

\* ---- C34 ---------------------------------------------------------------
\* C34: when the read loop of an old connection ends after its session has
\* been re-attached by a newer connection, the teardown does not clear the
\* channel the newer connection installed and does not set the session to
\* Disconnected; at any time at most one live connection drives a session.
C34_OldTeardownHarmless ==
    /\ \A c \in OpenConns :
           LET id == conns[c].sid
               R == mark_disconnected(St, id)
           IN  (sessions[id].sender # None /\ sessions[id].sender # Some(c)) =>
                   /\ R.sessions[id].sender = sessions[id].sender
                   /\ R.sessions[id].status = sessions[id].status
    /\ \A c, d \in OpenConns : c # d => conns[c].sid # conns[d].sid

\* ---- C35 (LiveSpec) ----------------------------------------------------
\* Session id is answering over a live channel in a running quiz.
AnsweringLive(id) ==
    /\ id \in DOMAIN sessions
    /\ ~should_quit
    /\ status = "InProgress"
    /\ sessions[id].status.tag = "Answering"
    /\ sessions[id].sender # None

\* Session id has finished, or has lost its channel (kicked, banned,
\* disconnected), or the server has quit.
FinishedOrGone(id) ==
    \/ should_quit
    \/ /\ id \in DOMAIN sessions
       /\ \/ sessions[id].status = Finished
          \/ sessions[id].sender = None

\* C35: under fair scheduling a connected session that is Answering(k) in
\* a quiz in progress, that is never kicked, banned or disconnected and
\* keeps answering the Question it received last, eventually is Finished.
C35_EventuallyFinished ==
    \A id \in Conns : AnsweringLive(id) ~> FinishedOrGone(id)

\* ---- C36 ---------------------------------------------------------------
\* C36: in every reachable state the username->session map agrees with the
\* sessions: every entry (u -> id) names an existing session whose current
\* username is u, and every session with a username u has the entry
\* (u -> its id).
C36_NameMapAgrees ==
    /\ \A u \in DOMAIN username_to_id :
           /\ username_to_id[u] \in DOMAIN sessions
           /\ sessions[username_to_id[u]].username = Some(u)
    /\ \A id \in DOMAIN sessions :
           sessions[id].username # None =>
               /\ Unwrap(sessions[id].username) \in DOMAIN username_to_id
               /\ username_to_id[Unwrap(sessions[id].username)] = id

\* ---- C37 ---------------------------------------------------------------
\* C37: in every reachable state every session that has a username and
\* status Disconnected is the session that the IP->session map gives for
\* its IP, so that a later connection from that IP restores it.
C37_DisconnectedReachable ==
    \A id \in DOMAIN sessions :
        (sessions[id].username # None /\ sessions[id].status = Disconnected) =>
            /\ sessions[id].ip_addr \in DOMAIN ip_to_id
            /\ ip_to_id[sessions[id].ip_addr] = id
            /\ (sessions[id].ip_addr \notin banned_ips =>
                    connection_session_id(St, sessions[id].ip_addr, 0) = id)

\* ---- C38 ---------------------------------------------------------------
\* C38: in every reachable state a session with status Finished has an
\* answer list of length N with every slot set, a score that is set and
\* equals the count of its slots matching the correct answers, and a finish
\* time that is set.
C38_FinishedComplete ==
    \A id \in DOMAIN sessions :
        sessions[id].status = Finished =>
            /\ Len(sessions[id].answers) = Len(questions)
            /\ \A i \in 1..Len(sessions[id].answers) : sessions[id].answers[i] # None
            /\ sessions[id].score = Some(MatchingSlots(id))
            /\ sessions[id].finished_at # None

\* ---- C39 ---------------------------------------------------------------
\* C39: in every reachable state every set answer slot holds one of the
\* four option indices 0..3; a SubmitAnswer whose answer is 4 or more is
\* never stored in a slot and never advances the session.
C39_AnswersInRange ==
    /\ \A id \in DOMAIN sessions :
           \A i \in 1..Len(sessions[id].answers) :
               sessions[id].answers[i] # None =>
                   Unwrap(sessions[id].answers[i]) \in 0..3
    /\ \A c \in OpenConns, k \in IndexInputs, a \in AnswerInputs :
       \A now \in NowChoices(St), order \in IterOrders(St) :
           a >= 4 =>
               LET id == conns[c].sid
                   R == handle_answer(St, id, k, a, now, order)
               IN  /\ R.sessions[id].answers = sessions[id].answers
                   /\ R.sessions[id].status = sessions[id].status

====
